---------------------------- MODULE Spec2Model ----------------------------
(***************************************************************************)
(* A model of twitter_ads/http.py: the Request/Response pair of the SDK.   *)
(*                                                                         *)
(* Three operations are modelled, each as one atomic action:               *)
(*   NewResponse   Response.__init__ called directly with any mapping      *)
(*   Perform       Request.__init__ followed by Request.perform            *)
(*   ChunckImage   Request.__chunck_image, the multipart body builder      *)
(* Every call is synchronous and keeps nothing from the call before it     *)
(* but the process-wide logging switch, so a behaviour is one call: the    *)
(* initial state holds the switch and the call about to be made with its   *)
(* arguments, and the action of that operation runs it to its end.         *)
(*                                                                         *)
(* Python values are records tagged with their type.  An exception is the  *)
(* name of its class.                                                      *)
(***************************************************************************)
EXTENDS Integers, Sequences, FiniteSets, TLC

VARIABLES
    debuglevel,   \* httplib.HTTPConnection.debuglevel, process-wide
    op,           \* the operation called
    args,         \* the arguments of the call
    result,       \* pending, or how the call ended: returned a value or raised
    response,     \* the Response built during the call, if any
    sent,         \* the request handed to the OAuth1 session, if any
    fp            \* the file handle the body builder worked on, if any

vars == <<debuglevel, op, args, result, response, sent, fp>>

---------------------------------------------------------------------------
(* Bounds of the model *)

\* Largest max_size (in kilobytes) a caller passes; file sizes go one byte
\* past MaxKB kilobytes.
MaxKB == 2

\* Status codes go up to MaxHundreds * 100 + 99.
MaxHundreds == 6

---------------------------------------------------------------------------
(* Python values *)

None == [t |-> "None"]

PyStr(s) == [t |-> "str", v |-> s]

\* The results of json(): a dict or a list is characterised by its number
\* of items and, for the error payload, by its content.
EmptyDict == [t |-> "dict", v |-> "{}"]
ErrorsDict == [t |-> "dict", v |-> "{errors:[{code:88,message:Rate limit exceeded}]}"]
DataDict == [t |-> "dict", v |-> "{data:[]}"]
EmptyList == [t |-> "list", v |-> "[]"]
PyInt(n) == [t |-> "int", v |-> n]
PyFalse == [t |-> "bool", v |-> FALSE]

\* Python truth value testing, as used by the `or` of line 160.
Truthy(x) ==
    CASE x.t = "None" -> FALSE
      [] x.t = "str" -> x.v # ""
      [] x.t = "dict" -> x.v # "{}"
      [] x.t = "list" -> x.v # "[]"
      [] x.t = "int" -> x.v # 0
      [] x.t = "bool" -> x.v
      [] OTHER -> TRUE

\* `a or b`
PyOr(a, b) == IF Truthy(a) THEN a ELSE b

\* dict.get(key, default) on a mapping modelled as a function
Get(d, key, default) == IF key \in DOMAIN d THEN d[key] ELSE default

---------------------------------------------------------------------------
(* Header values *)

\* A header value is either a str, as the transport returns, or an object
\* with a `first` attribute (a multi-valued header).  chars is the text of
\* the str, or of the first value of the multi-valued header.
StrVal(chars) == [kind |-> "str", chars |-> chars]
MultiVal(chars) == [kind |-> "multi", chars |-> chars]

Digits == {"0", "1", "2", "3", "4", "5", "6", "7", "8", "9"}

DigitValue(c) ==
    CASE c = "0" -> 0 [] c = "1" -> 1 [] c = "2" -> 2 [] c = "3" -> 3
      [] c = "4" -> 4 [] c = "5" -> 5 [] c = "6" -> 6 [] c = "7" -> 7
      [] c = "8" -> 8 [] c = "9" -> 9

IsDigitString(chars) ==
    /\ Len(chars) > 0
    /\ \A i \in 1..Len(chars) : chars[i] \in Digits

RECURSIVE DecimalValue(_)
DecimalValue(chars) ==
    IF chars = <<>> THEN 0
    ELSE 10 * DecimalValue(SubSeq(chars, 1, Len(chars) - 1))
         + DigitValue(chars[Len(chars)])

\* int(x) for a header value x: TypeError for an object that is no str,
\* ValueError for a str that is no decimal literal.
IntOf(x) ==
    IF x.kind # "str" THEN [ok |-> FALSE, exc |-> "TypeError", v |-> 0]
    ELSE IF ~IsDigitString(x.chars) THEN [ok |-> FALSE, exc |-> "ValueError", v |-> 0]
    ELSE [ok |-> TRUE, exc |-> "", v |-> DecimalValue(x.chars)]

\* x.first: a str has no such attribute.
FirstOf(x) ==
    IF x.kind = "str" THEN [ok |-> FALSE, exc |-> "AttributeError", v |-> <<>>]
    ELSE [ok |-> TRUE, exc |-> "", v |-> x.chars]

\* datetime.datetime.fromtimestamp(n): the instant n seconds after the epoch.
FromTimestamp(n) == [t |-> "datetime", by |-> "fromtimestamp", v |-> n]

\* dateutil's parser.parse(s) for the texts of the model: a string of digits
\* reads as a date, anything else is a ValueError.
ParseDate(chars) ==
    IF ~IsDigitString(chars) THEN [ok |-> FALSE, exc |-> "ValueError", v |-> None]
    ELSE [ok |-> TRUE, exc |-> "",
          v |-> [t |-> "datetime", by |-> "parser.parse", v |-> DecimalValue(chars)]]

---------------------------------------------------------------------------
(* Response *)

NoResponse == [t |-> "NoResponse"]

HeaderNames == {"x-rate-limit-limit", "x-rate-limit-remaining", "x-rate-limit-reset",
                "x-cost-rate-limit-limit", "x-cost-rate-limit-remaining",
                "x-cost-rate-limit-reset"}

\* h[name] for a mapping h: KeyError when the key is absent.
Item(h, name) ==
    IF name \in DOMAIN h THEN [ok |-> TRUE, exc |-> "", v |-> h[name]]
    ELSE [ok |-> FALSE, exc |-> "KeyError", v |-> StrVal(<<>>)]

\* int(headers[name])
IntHeader(h, name) ==
    LET x == Item(h, name) IN
    IF ~x.ok THEN [ok |-> FALSE, exc |-> x.exc, v |-> 0] ELSE IntOf(x.v)

Raised(e) == [ok |-> FALSE, exc |-> e, limit |-> None, remaining |-> None, reset |-> None]

\* Lines 163-166: the standard scheme, evaluated in source order.
StandardRateLimit(h) ==
    LET limit == IntHeader(h, "x-rate-limit-limit")
        remaining == IntHeader(h, "x-rate-limit-remaining")
        reset == IntHeader(h, "x-rate-limit-reset")
    IN  IF ~limit.ok THEN Raised(limit.exc)
        ELSE IF ~remaining.ok THEN Raised(remaining.exc)
        ELSE IF ~reset.ok THEN Raised(reset.exc)
        ELSE [ok |-> TRUE, exc |-> "", limit |-> PyInt(limit.v),
              remaining |-> PyInt(remaining.v), reset |-> FromTimestamp(reset.v)]

\* The cost-based scheme with remaining read from the standard header.
CostRateLimit_Mixed(h) ==
    LET limit == IntHeader(h, "x-cost-rate-limit-limit")
        remaining == IntHeader(h, "x-rate-limit-remaining")
        first == FirstOf(h["x-cost-rate-limit-reset"])
        reset == ParseDate(first.v)
    IN  IF ~limit.ok THEN Raised(limit.exc)
        ELSE IF ~remaining.ok THEN Raised(remaining.exc)
        ELSE IF ~first.ok THEN Raised(first.exc)
        ELSE IF ~reset.ok THEN Raised(reset.exc)
        ELSE [ok |-> TRUE, exc |-> "", limit |-> PyInt(limit.v),
              remaining |-> PyInt(remaining.v), reset |-> reset.v]

\* Lines 168-172: the cost-based scheme, evaluated in source order.
CostRateLimit(h) ==
    LET limit == IntHeader(h, "x-cost-rate-limit-limit")
        remaining == IntHeader(h, "x-cost-rate-limit-remaining")
        first == FirstOf(h["x-cost-rate-limit-reset"])
        reset == ParseDate(first.v)
    IN  IF ~limit.ok THEN Raised(limit.exc)
        ELSE IF ~remaining.ok THEN Raised(remaining.exc)
        ELSE IF ~first.ok THEN Raised(first.exc)
        ELSE IF ~reset.ok THEN Raised(reset.exc)
        ELSE [ok |-> TRUE, exc |-> "", limit |-> PyInt(limit.v),
              remaining |-> PyInt(remaining.v), reset |-> reset.v]

\* Lines 162-176: the three-branch decision.
RateLimit(h) ==
    IF "x-rate-limit-reset" \in DOMAIN h THEN StandardRateLimit(h)
    ELSE IF "x-cost-rate-limit-reset" \in DOMAIN h THEN CostRateLimit(h)
    ELSE [ok |-> TRUE, exc |-> "", limit |-> None, remaining |-> None, reset |-> None]

\* Line 160: kwargs.get('body', None) or self._raw_body
ResponseBody(kwargs) ==
    PyOr(Get(kwargs, "body", None), Get(kwargs, "raw_body", None))

\* Response.__init__(code, headers, **kwargs): the object built, or the
\* exception that ends the construction.
ResponseInit(code, headers, kwargs) ==
    LET rl == RateLimit(headers) IN
    IF ~rl.ok THEN [ok |-> FALSE, exc |-> rl.exc, obj |-> NoResponse]
    ELSE [ok |-> TRUE, exc |-> "",
          obj |-> [t |-> "Response",
                   code |-> code,
                   headers |-> headers,
                   raw_body |-> Get(kwargs, "raw_body", None),
                   body |-> ResponseBody(kwargs),
                   rate_limit |-> rl.limit,
                   rate_limit_remaining |-> rl.remaining,
                   rate_limit_reset |-> rl.reset]]

\* error without the upper limit of 599.
ResponseError_NoUpperLimit(r) == IF r.code >= 400 THEN TRUE ELSE FALSE

\* Response.error
ResponseError(r) == IF r.code >= 400 /\ r.code <= 599 THEN TRUE ELSE FALSE

---------------------------------------------------------------------------
(* Inputs of Response.__init__ *)

\* The values a header takes in the model: two decimal strings, a string
\* that is no number, and a multi-valued header whose first value is "7".
HeaderValues == {StrVal(<<"1", "5">>), StrVal(<<"7">>), StrVal(<<"x">>),
                 MultiVal(<<"7">>)}

\* Every mapping from some of the six rate-limit header names to a value.
AllHeaders == UNION {[S -> HeaderValues] : S \in SUBSET HeaderNames}

NoHeaders == [n \in {} |-> StrVal(<<>>)]

StandardHeaders ==
    [n \in {"x-rate-limit-limit", "x-rate-limit-remaining", "x-rate-limit-reset"} |->
        IF n = "x-rate-limit-limit" THEN StrVal(<<"1", "5">>) ELSE StrVal(<<"7">>)]

CostHeaders ==
    [n \in {"x-cost-rate-limit-limit", "x-cost-rate-limit-remaining",
            "x-cost-rate-limit-reset"} |->
        IF n = "x-cost-rate-limit-limit" THEN StrVal(<<"1", "5">>) ELSE StrVal(<<"7">>)]

\* Status codes: both ends of every hundred up to MaxHundreds, and 429.
Codes == {100 * k + d : k \in 1..MaxHundreds, d \in {0, 99}} \cup {429}

BodyValues == {None, EmptyDict, ErrorsDict, EmptyList, PyInt(0), PyFalse}

RawValues == {None, PyStr("raw")}

\* The keyword arguments of Response(...): body and raw_body, each optional.
KwargsSet ==
    {k \in UNION {[S -> BodyValues \cup RawValues] : S \in SUBSET {"body", "raw_body"}} :
        /\ "body" \in DOMAIN k => k["body"] \in BodyValues
        /\ "raw_body" \in DOMAIN k => k["raw_body"] \in RawValues}

\* The calls of Response(...) the model makes: every header mapping with one
\* code and body, and every code and body with a few header mappings.
ResponseCalls ==
    {[code |-> 200, headers |-> h, kwargs |-> [b \in {"raw_body"} |-> PyStr("raw")]] :
        h \in AllHeaders}
    \cup
    {[code |-> c, headers |-> h, kwargs |-> k] :
        c \in Codes, h \in {NoHeaders, StandardHeaders}, k \in KwargsSet}

---------------------------------------------------------------------------
(* Request *)

DEFAULT_DOMAIN == "https://ads-api.twitter.com"

SANDBOX_DOMAIN == "https://ads-api-sandbox.twitter.com"

\* str.lower() on the method names of the model.
Lower(m) ==
    CASE m = "GET" -> "get"
      [] m = "Post" -> "post"
      [] OTHER -> m

DigitChar(d) ==
    CASE d = 0 -> "0" [] d = 1 -> "1" [] d = 2 -> "2" [] d = 3 -> "3"
      [] d = 4 -> "4" [] d = 5 -> "5" [] d = 6 -> "6" [] d = 7 -> "7"
      [] d = 8 -> "8" [] d = 9 -> "9"

\* str(n) for a natural number n.
RECURSIVE ToStr(_)
ToStr(n) == IF n < 10 THEN DigitChar(n) ELSE ToStr(n \div 10) \o DigitChar(n % 10)

\* Request.__init__(client, method, resource, **kwargs)
RequestInit(client, method, resource, kwargs) ==
    [client |-> client, method |-> Lower(method), resource |-> resource,
     options |-> kwargs]

\* The interpreter and the installed SDK, as __user_agent reads them.
Platform == [version |-> "0.1.0", major |-> 3, minor |-> 6,
             implementation |-> "CPython", platform |-> "linux"]

\* Request.__user_agent
UserAgent ==
    LET python_verison == ToStr(Platform.major) \o "." \o ToStr(Platform.minor) IN
    "twitter-ads version: " \o Platform.version \o " platform: Python "
        \o python_verison \o " (" \o Platform.implementation \o "/"
        \o Platform.platform \o ")"

\* __domain with the override looked up before the sandbox flag.
Domain_OverrideFirst(req) ==
    IF "domain" \in DOMAIN req.options THEN req.options["domain"]
    ELSE IF req.client.sandbox THEN SANDBOX_DOMAIN
    ELSE DEFAULT_DOMAIN

\* Request.__domain
Domain(req) ==
    IF req.client.sandbox THEN SANDBOX_DOMAIN
    ELSE Get(req.options, "domain", DEFAULT_DOMAIN)

\* dict.update: the entries of extra replace those of base.
Update(base, extra) ==
    [k \in DOMAIN base \cup DOMAIN extra |->
        IF k \in DOMAIN extra THEN extra[k] ELSE base[k]]

\* Lines 66-68: the headers of the outgoing request.
RequestHeaders(req) ==
    LET headers == [k \in {"user-agent"} |-> UserAgent] IN
    IF "headers" \in DOMAIN req.options
    THEN Update(headers, req.options["headers"])
    ELSE headers

\* Lines 70-81: the call handed to the OAuth1 session.
OAuthCall(req) ==
    [t |-> "Request",
     consumer |-> [client_key |-> req.client.consumer_key,
                   client_secret |-> req.client.consumer_secret,
                   resource_owner_key |-> req.client.access_token,
                   resource_owner_secret |-> req.client.access_token_secret],
     method |-> req.method,
     url |-> Domain(req) \o req.resource,
     headers |-> RequestHeaders(req),
     data |-> Get(req.options, "body", None),
     params |-> Get(req.options, "params", None)]

\* The reply's json(): the decoded payload, or ValueError for a body that
\* is no JSON document.
JsonDecode(text) ==
    CASE text = "{}" -> [ok |-> TRUE, exc |-> "", v |-> EmptyDict]
      [] text = "{\"data\":[]}" -> [ok |-> TRUE, exc |-> "", v |-> DataDict]
      [] text = "{\"errors\":[{\"code\":88,\"message\":\"Rate limit exceeded\"}]}" ->
            [ok |-> TRUE, exc |-> "", v |-> ErrorsDict]
      [] text = "null" -> [ok |-> TRUE, exc |-> "", v |-> None]
      [] OTHER -> [ok |-> FALSE, exc |-> "ValueError", v |-> None]

\* Lines 83-84: the Response wrapped around the transport's reply.  The
\* arguments are evaluated first, so a body that does not decode ends the
\* call before Response.__init__ runs.
WrapReply(reply) ==
    LET json == JsonDecode(reply.text) IN
    IF ~json.ok THEN [ok |-> FALSE, exc |-> json.exc, obj |-> NoResponse]
    ELSE ResponseInit(reply.status_code, reply.headers,
                      [k \in {"body", "raw_body"} |->
                          IF k = "body" THEN json.v ELSE PyStr(reply.text)])

\* Error.from_response(response): the API error built from the response.
ErrorFromResponse(r) == [t |-> "Error.from_response", response |-> r]

\* perform with the status check off by one: a 400 is returned.
PerformOutcome_Above400(r) ==
    IF r.code > 400 THEN [kind |-> "raise", exc |-> "Error", value |-> ErrorFromResponse(r)]
    ELSE [kind |-> "return", exc |-> "", value |-> r]

\* Lines 61-63 of perform: the outcome for a Response that was built.
PerformOutcome(r) ==
    IF r.code > 399 THEN [kind |-> "raise", exc |-> "Error", value |-> ErrorFromResponse(r)]
    ELSE [kind |-> "return", exc |-> "", value |-> r]

---------------------------------------------------------------------------
(* Inputs of Request.perform *)

Credentials == [consumer_key |-> "ck", consumer_secret |-> "cs",
                access_token |-> "at", access_token_secret |-> "ats"]

Clients ==
    {[sandbox |-> s, trace |-> tr,
      consumer_key |-> Credentials.consumer_key,
      consumer_secret |-> Credentials.consumer_secret,
      access_token |-> Credentials.access_token,
      access_token_secret |-> Credentials.access_token_secret] :
        s \in BOOLEAN, tr \in BOOLEAN}

Methods == {"GET", "get", "Post"}

Resources == {"/1/accounts", "/1/stats"}

CUSTOM_DOMAIN == "https://ads.example.test"

NoOptions == [k \in {} |-> None]

\* The option bags of the model.
OptionBags ==
    {NoOptions,
     [k \in {"domain"} |-> CUSTOM_DOMAIN],
     [k \in {"headers", "params"} |->
        IF k = "headers" THEN [n \in {"x-as-user"} |-> "u1"] ELSE PyStr("count=1")],
     [k \in {"headers", "body", "domain"} |->
        CASE k = "headers" -> [n \in {"user-agent"} |-> "custom-agent"]
          [] k = "body" -> PyStr("payload")
          [] k = "domain" -> CUSTOM_DOMAIN]}

\* The header mappings of the transport's replies: every value is a str.
ReplyHeaders ==
    {NoHeaders, StandardHeaders, CostHeaders,
     Update(CostHeaders, StandardHeaders),
     [n \in {"x-rate-limit-reset"} |-> StrVal(<<"7">>)]}

ReplyTexts == {"", "<html>Bad Gateway</html>", "null", "{}", "{\"data\":[]}",
               "{\"errors\":[{\"code\":88,\"message\":\"Rate limit exceeded\"}]}"}

\* The status codes of final replies: 200 and above.
ReplyCodes == {c \in Codes : c >= 200}

Replies ==
    {[status_code |-> c, headers |-> h, text |-> x] :
        c \in ReplyCodes, h \in ReplyHeaders, x \in ReplyTexts}

PerformCalls ==
    {[client |-> c, method |-> m, resource |-> r, options |-> o, reply |-> y] :
        c \in Clients, m \in Methods, r \in Resources, o \in OptionBags, y \in Replies}

---------------------------------------------------------------------------
(* The state of a call *)

NoRequest == [t |-> "NoRequest"]

NoHandle == [owner |-> "none", open |-> FALSE, pos |-> 0, read |-> FALSE, size |-> 0]

Pending == [kind |-> "pending", exc |-> "", value |-> None]

Returned(v) == [kind |-> "return", exc |-> "", value |-> v]

Raise(e, v) == [kind |-> "raise", exc |-> e, value |-> v]


---------------------------------------------------------------------------
(* The image upload body builder *)

\* Bytes in a kilobyte, as in max_size * 1024.
KB == 1024

\* The module-level name `self` that line 108 reads: __chunck_image has no
\* such parameter and http.py binds no such global, so the name is unbound
\* unless the embedding program binds it, to some path.
Unbound == [t |-> "unbound"]

\* The SDK's Error class is no subclass of OSError.
ErrorIsOSError == FALSE

\* Line 110: does `except os.error` catch an exception of class e?
CaughtAsOSError(e) == e = "OSError" \/ (e = "Error" /\ ErrorIsOSError)

TooBigMessage(max_size) ==
    "File is too big, must be less than " \o ToStr(max_size) \o "kb."

AccessMessage == "Unable to access file: No such file or directory"

UnknownTypeMessage == "Unknown file type"

InvalidTypeMessage(file_type) ==
    "Invalid file type for image: " \o (IF file_type = None THEN "None" ELSE file_type.v)

\* Lines 107-111: the size check by path.  The exception the try block
\* raises, if any, then the except clause.
SizeCheckByPath(a) ==
    LET tried ==
            IF a.self = Unbound THEN Raise("NameError", None)
            ELSE IF ~a.fs[a.self.v].exists THEN Raise("OSError", None)
            ELSE IF a.fs[a.self.v].size > (a.max_size * KB)
                 THEN Raise("Error", TooBigMessage(a.max_size))
            ELSE Pending
    IN  IF tried.kind = "raise" /\ CaughtAsOSError(tried.exc)
        THEN Raise("Error", AccessMessage)
        ELSE tried

\* Line 113: open(filename, 'rb')
OpenFile(a) ==
    IF a.fs[a.filename].exists
    THEN [owner |-> "builder", open |-> TRUE, pos |-> 0, read |-> FALSE,
          size |-> a.fs[a.filename].size]
    ELSE NoHandle

\* Lines 116-121: the size check on the caller's handle.  Line 118 is read
\* as raise Error('File is too big, must be less than %skb.' % max_size).
SizeCheckByHandle(a) ==
    LET atEnd == [owner |-> "caller", open |-> TRUE, pos |-> a.f.size,
                  read |-> FALSE, size |-> a.f.size]
    IN  IF atEnd.pos > (a.max_size * KB)
        THEN [result |-> Raise("Error", TooBigMessage(a.max_size)), fp |-> atEnd]
        ELSE [result |-> Pending, fp |-> [atEnd EXCEPT !.pos = 0]]

\* Lines 106-121: the handle to read from, or the exception that ends the call.
AcquireHandle(a) ==
    IF a.f = None
    THEN LET check == SizeCheckByPath(a) IN
         IF check.kind = "raise" THEN [result |-> check, fp |-> NoHandle]
         ELSE IF OpenFile(a) = NoHandle
              THEN [result |-> Raise("IOError", None), fp |-> NoHandle]
         ELSE [result |-> Pending, fp |-> OpenFile(a)]
    ELSE SizeCheckByHandle(a)

\* os.path.splitext on the file names of the model.
Extension(filename) ==
    CASE filename = "a.png" -> ".png"
      [] filename = "c.jpg" -> ".jpg"
      [] filename = "d.gif" -> ".gif"
      [] filename = "b.bmp" -> ".bmp"
      [] OTHER -> ""

\* mimetypes.guess_type(filename): always a pair (type, encoding), whose
\* type is None when the extension is not known.
GuessType(filename) ==
    LET ext == Extension(filename)
        type == CASE ext = ".png" -> PyStr("image/png")
                  [] ext = ".jpg" -> PyStr("image/jpeg")
                  [] ext = ".gif" -> PyStr("image/gif")
                  [] ext = ".bmp" -> PyStr("image/bmp")
                  [] OTHER -> None
    IN  [t |-> "tuple", v |-> <<type, None>>]

ImageTypes == {PyStr("image/gif"), PyStr("image/jpeg"), PyStr("image/png")}

\* Lines 122-127: the exception the type check raises, or Pending.
TypeCheck(filename) ==
    LET file_type == GuessType(filename) IN
    IF file_type = None THEN Raise("Error", UnknownTypeMessage)
    ELSE IF file_type.v[1] \notin ImageTypes
         THEN Raise("Error", InvalidTypeMessage(file_type.v[1]))
    ELSE Pending

Bytes(s) == [t |-> "bytes", text |-> s, blob |-> 0]

\* The n bytes read from the file.
FileBytes(n) == [t |-> "bytes", text |-> "", blob |-> n]

BytesLen(b) == Len(b.text) + b.blob

CRLF == "\r\n"

BOUNDARY == "twitter-ads"

RECURSIVE SumLen(_)
SumLen(parts) ==
    IF parts = <<>> THEN 0 ELSE BytesLen(Head(parts)) + SumLen(Tail(parts))

\* len(sep.join(parts))
JoinedLen(sep, parts) ==
    IF parts = <<>> THEN 0 ELSE SumLen(parts) + Len(sep) * (Len(parts) - 1)

\* Lines 129-130 and 136: the file name as format() writes it.  On Python 3
\* a str is encoded to bytes, which format() writes as b'...'.
FormattedFilename(filename, py3) ==
    IF py3 THEN "b'" \o filename \o "'" ELSE filename

\* Lines 132-142: the parts of the body, for a handle at its start.
BodyParts(a, handle) ==
    <<Bytes("--" \o BOUNDARY),
      Bytes("Content-Disposition: form-data; name=\"" \o a.form_field
            \o "\"; filename=\"" \o FormattedFilename(a.filename, a.py3) \o "\""),
      Bytes("Content-Type: " \o GuessType(a.filename).v[1].v),
      Bytes(""),
      FileBytes(handle.size - handle.pos),
      Bytes("--" \o BOUNDARY \o "--"),
      Bytes("")>>

\* Lines 140 and 143: fp.read() then fp.close()
ReadAndClose(handle) ==
    [handle EXCEPT !.pos = handle.size, !.read = TRUE, !.open = FALSE]

\* Lines 144-151: the (headers, body) pair returned.
Packed(parts) ==
    [t |-> "tuple",
     headers |-> [k \in {"Content-Type", "Content-Length"} |->
                    IF k = "Content-Type"
                    THEN "multipart/form-data; boundary=twitter-ads"
                    ELSE ToStr(JoinedLen(CRLF, parts))],
     body |-> [t |-> "bytes", sep |-> CRLF, parts |-> parts]]

\* __chunck_image(filename, max_size, form_field, f): how the call ends and
\* the state it leaves the handle in.
ChunckImageRun(a) ==
    LET got == AcquireHandle(a) IN
    IF got.result.kind = "raise" THEN got
    ELSE IF TypeCheck(a.filename).kind = "raise"
         THEN [result |-> TypeCheck(a.filename), fp |-> got.fp]
    ELSE [result |-> Returned(Packed(BodyParts(a, got.fp))),
          fp |-> ReadAndClose(got.fp)]

---------------------------------------------------------------------------
(* Inputs of the body builder *)

Filenames == {"a.png", "c.jpg", "d.gif", "b.bmp", "noext"}

FileSizes == {k * KB + d : k \in 1..MaxKB, d \in {0, 1}}

FileStates ==
    {[exists |-> FALSE, size |-> 0]} \cup {[exists |-> TRUE, size |-> n] : n \in FileSizes}

\* The file systems of the model: one file in some state, the others all in
\* another.
FileSystems ==
    {[p \in Filenames |-> IF p = q THEN x ELSE y] :
        q \in Filenames, x \in FileStates, y \in FileStates}

SelfBindings == {Unbound} \cup {PyStr(p) : p \in Filenames}

\* The caller's already-open handles.
Handles == {[t |-> "file", size |-> n] : n \in FileSizes}

SomeFileSystem == [p \in Filenames |-> [exists |-> TRUE, size |-> KB]]

ChunckCalls ==
    {[filename |-> n, max_size |-> m, form_field |-> "image", f |-> None,
      self |-> g, fs |-> d, py3 |-> v] :
        n \in Filenames, m \in 1..MaxKB, g \in SelfBindings, d \in FileSystems,
        v \in BOOLEAN}
    \cup
    {[filename |-> n, max_size |-> m, form_field |-> ff, f |-> h,
      self |-> Unbound, fs |-> SomeFileSystem, py3 |-> v] :
        n \in Filenames, m \in 1..MaxKB, ff \in {"image", "media"}, h \in Handles,
        v \in BOOLEAN}

---------------------------------------------------------------------------
(* The operations *)

\* Response(code, headers, **kwargs), called directly.
NewResponse ==
    /\ op = "Response"
    /\ result = Pending
    /\ LET r == ResponseInit(args.code, args.headers, args.kwargs) IN
        /\ response' = r.obj
        /\ result' = IF r.ok THEN Returned(r.obj) ELSE Raise(r.exc, None)
    /\ UNCHANGED <<debuglevel, op, args, sent, fp>>

\* Request(client, method, resource, **options).perform(), with the reply the
\* transport gives to the request.
Perform ==
    /\ op = "perform"
    /\ result = Pending
    /\ LET req == RequestInit(args.client, args.method, args.resource, args.options)
           r == WrapReply(args.reply)
       IN
        /\ debuglevel' = IF req.client.trace THEN 1 ELSE debuglevel
        /\ sent' = OAuthCall(req)
        /\ response' = r.obj
        /\ result' = IF r.ok THEN PerformOutcome(r.obj) ELSE Raise(r.exc, None)
    /\ UNCHANGED <<op, args, fp>>

\* __chunck_image(filename, max_size, form_field, f)
ChunckImage ==
    /\ op = "chunck_image"
    /\ result = Pending
    /\ LET run == ChunckImageRun(args) IN
        /\ result' = run.result
        /\ fp' = run.fp
    /\ UNCHANGED <<debuglevel, op, args, response, sent>>

Init ==
    /\ debuglevel \in {0, 1}
    /\ \/ op = "Response" /\ args \in ResponseCalls
       \/ op = "perform" /\ args \in PerformCalls
       \/ op = "chunck_image" /\ args \in ChunckCalls
    /\ result = Pending
    /\ response = NoResponse
    /\ sent = NoRequest
    /\ fp = NoHandle

Next == NewResponse \/ Perform \/ ChunckImage

Spec == Init /\ [][Next]_vars

---------------------------------------------------------------------------
(* Properties *)

Done == result # Pending

Built == response # NoResponse

\* The header mapping and the status code the Response of this call is
\* built from.
GivenHeaders == IF op = "perform" THEN args.reply.headers ELSE args.headers

GivenCode == IF op = "perform" THEN args.reply.status_code ELSE args.code

MakesResponse == op \in {"Response", "perform"}

AllNull ==
    /\ response.rate_limit = None
    /\ response.rate_limit_remaining = None
    /\ response.rate_limit_reset = None

\* The number a header of the call spells, as a Python int; None when the
\* header is absent or spells no number.
Number(name) ==
    IF name \in DOMAIN GivenHeaders /\ IsDigitString(GivenHeaders[name].chars)
    THEN PyInt(DecimalValue(GivenHeaders[name].chars))
    ELSE None

\* The three fields hold the values of the three headers of one scheme.
FromStandard ==
    /\ response.rate_limit # None
    /\ response.rate_limit_remaining # None
    /\ response.rate_limit_reset # None
    /\ response.rate_limit = Number("x-rate-limit-limit")
    /\ response.rate_limit_remaining = Number("x-rate-limit-remaining")
    /\ Number("x-rate-limit-reset") # None
    /\ response.rate_limit_reset =
            [t |-> "datetime", by |-> "fromtimestamp", v |-> Number("x-rate-limit-reset").v]

FromCost ==
    /\ response.rate_limit # None
    /\ response.rate_limit_remaining # None
    /\ response.rate_limit_reset # None
    /\ response.rate_limit = Number("x-cost-rate-limit-limit")
    /\ response.rate_limit_remaining = Number("x-cost-rate-limit-remaining")
    /\ Number("x-cost-rate-limit-reset") # None
    /\ response.rate_limit_reset =
            [t |-> "datetime", by |-> "parser.parse",
             v |-> Number("x-cost-rate-limit-reset").v]

\* C1 as stated: perform() ends in one of two ways for every reply: status
\* >= 400 raises the API error built from the Response wrapping the reply,
\* status < 400 returns that Response.
C1_TwoOutcomes ==
    (op = "perform" /\ Done) =>
        /\ Built
        /\ response.code = args.reply.status_code
        /\ args.reply.status_code >= 400 =>
                /\ result.kind = "raise"
                /\ result.exc = "Error"
                /\ result.value = [t |-> "Error.from_response", response |-> response]
        /\ args.reply.status_code < 400 =>
                /\ result.kind = "return"
                /\ result.value = response

\* The reply's body decodes as JSON: it is one of the JSON documents.
DecodesAsJson(text) ==
    text \in {"null", "{}", "{\"data\":[]}",
              "{\"errors\":[{\"code\":88,\"message\":\"Rate limit exceeded\"}]}"}

\* C1 amended: perform() ends in one of three ways.  An exception raised
\* while decoding the reply's body or while constructing the Response
\* (reading the rate-limit headers) propagates, whatever the status; and a
\* reply whose body does not decode always ends so.  Otherwise a Response
\* wrapping the reply is built, and status >= 400 raises the API error
\* built from it, status < 400 returns it.  No Response with code >= 400 is
\* returned.
C1_ThreeOutcomes ==
    (op = "perform" /\ Done) =>
        /\ ~DecodesAsJson(args.reply.text) =>
                result = Raise("ValueError", None) /\ ~Built
        /\ ~Built =>
                /\ result.kind = "raise"
                /\ result.exc \in {"ValueError", "KeyError", "TypeError", "AttributeError"}
        /\ Built =>
                /\ response.code = args.reply.status_code
                /\ response.raw_body = PyStr(args.reply.text)
                /\ args.reply.status_code >= 400 =>
                        /\ result.kind = "raise"
                        /\ result.exc = "Error"
                        /\ result.value = [t |-> "Error.from_response", response |-> response]
                /\ args.reply.status_code < 400 => result = Returned(response)
        /\ result.kind = "return" => result.value.code < 400

\* A 429 reply with the rate-limit error payload raises the API error
\* carrying 429 and that payload.
C1_Witness ==
    /\ op = "perform"
    /\ result.kind = "raise"
    /\ result.exc = "Error"
    /\ result.value.response.code = 429
    /\ result.value.response.body = ErrorsDict

\* C2: the URL perform() dispatches to is domain + resource, the domain
\* being the sandbox domain whenever client.sandbox is true, else
\* options['domain'] if supplied, else the default production domain.
C2_DispatchUrl ==
    (op = "perform" /\ Done) =>
        /\ sent # NoRequest
        /\ sent.url =
            (IF args.client.sandbox THEN "https://ads-api-sandbox.twitter.com"
             ELSE IF "domain" \in DOMAIN args.options THEN args.options["domain"]
             ELSE "https://ads-api.twitter.com") \o args.resource

\* A sandbox client with a domain option dispatched to the sandbox domain.
C2_Witness ==
    /\ op = "perform"
    /\ Done
    /\ args.client.sandbox
    /\ "domain" \in DOMAIN args.options
    /\ args.resource = "/1/accounts"
    /\ sent.url = "https://ads-api-sandbox.twitter.com/1/accounts"

\* C3: every Response that is constructed has its three rate-limit fields
\* all null, or all three taken from the headers of the standard scheme, or
\* all three taken from the headers of the cost-based scheme.
C3_AllOrNothing ==
    (MakesResponse /\ Built) => (AllNull \/ FromStandard \/ FromCost)

\* A Response populated from the cost-based scheme while headers of the
\* standard scheme (but not its reset header) are present with other values.
C3_Witness ==
    /\ op = "Response"
    /\ Built
    /\ FromCost
    /\ "x-rate-limit-remaining" \in DOMAIN args.headers
    /\ args.headers["x-rate-limit-remaining"] # args.headers["x-cost-rate-limit-remaining"]

\* The headers of a scheme as the API sends them: limit, remaining and reset
\* all present, each a str of decimal digits.
SentAsText(names) ==
    /\ names \subseteq DOMAIN GivenHeaders
    /\ \A n \in names :
            GivenHeaders[n].kind = "str" /\ IsDigitString(GivenHeaders[n].chars)

\* C4 as stated, for headers as the API sends them (the three headers of a
\* scheme all present, each a str of digits): headers with x-rate-limit-reset
\* populate the three fields from the standard headers, whatever x-cost-*
\* headers are present; headers with x-cost-rate-limit-reset and no
\* x-rate-limit-reset populate them from the cost-based headers; headers
\* with neither reset header leave all three null.
C4_ThreeBranches ==
    (MakesResponse /\ Done /\ (op = "perform" => DecodesAsJson(args.reply.text))) =>
        /\ ("x-rate-limit-reset" \in DOMAIN GivenHeaders
            /\ SentAsText({"x-rate-limit-limit", "x-rate-limit-remaining",
                           "x-rate-limit-reset"}))
                => (Built /\ FromStandard)
        /\ ("x-rate-limit-reset" \notin DOMAIN GivenHeaders
            /\ SentAsText({"x-cost-rate-limit-limit", "x-cost-rate-limit-remaining",
                           "x-cost-rate-limit-reset"}))
                => (Built /\ FromCost)
        /\ ({"x-rate-limit-reset", "x-cost-rate-limit-reset"} \cap DOMAIN GivenHeaders = {})
                => (Built /\ AllNull)

C6_CallerHandleOpen ==
    (op = "chunck_image" /\ Done /\ fp.owner = "caller") => fp.open

\* The call got past the size check to the type check of line 122.
TypeCheckReached ==
    /\ op = "chunck_image"
    /\ Done
    /\ fp.owner # "none"
    /\ result # Raise("Error", TooBigMessage(args.max_size))

\* C7 as stated: no MIME type guessed ends in 'Unknown file type'; a type
\* other than image/gif, image/jpeg, image/png ends in the invalid-type
\* error; only those three types get a body.
C7_TypeErrors ==
    TypeCheckReached =>
        LET type == GuessType(args.filename).v[1] IN
        /\ type = None => result = Raise("Error", "Unknown file type")
        /\ (type # None /\ type \notin ImageTypes) =>
                result = Raise("Error", "Invalid file type for image: " \o type.v)
        /\ result.kind = "return" => type \in ImageTypes

\* The file the call is about: the caller's handle, or the file at filename.
GivenFile ==
    IF args.f # None THEN [exists |-> TRUE, size |-> args.f.size]
    ELSE args.fs[args.filename]

\* C8 as stated: a file larger than max_size * 1024 bytes, by path or by
\* handle, ends in the file-too-large error with nothing read and nothing
\* returned; a path that cannot be statted ends in the file-access error.
C8_SizeErrors ==
    (op = "chunck_image" /\ Done) =>
        /\ (GivenFile.exists /\ GivenFile.size > args.max_size * 1024) =>
                /\ result = Raise("Error", TooBigMessage(args.max_size))
                /\ ~fp.read
        /\ ~GivenFile.exists => result = Raise("Error", AccessMessage)

\* C9: the error flag of a Response with code c is true exactly when
\* 400 <= c <= 599.
C9_ErrorFlag ==
    (MakesResponse /\ Built) =>
        (ResponseError(response) <=> (400 <= GivenCode /\ GivenCode <= 599))

\* A Response with code 600, which is no error.
C9_Witness ==
    /\ op = "Response"
    /\ Built
    /\ args.code = 600
    /\ ~ResponseError(response)

\* C10 as stated: body is the parsed payload whenever one is supplied and
\* not null, whatever its value; body is raw_body only when there is none;
\* raw_body is the raw text passed in.
C10_BodyFallback ==
    (op = "Response" /\ Built) =>
        LET parsed == Get(args.kwargs, "body", None) IN
        /\ response.raw_body = Get(args.kwargs, "raw_body", None)
        /\ parsed # None => response.body = parsed
        /\ parsed = None => response.body = response.raw_body

===========================================================================
